---- MODULE Spec2Model ----
(***************************************************************************)
(* A model of pydantic's schema compiler                                   *)
(* (src/pydantic/_internal/_generate_schema.py, _typing_extra.py).         *)
(*                                                                         *)
(* One GenerateSchema instance is modelled.  Its methods run on an         *)
(* explicit Python call stack: a frame per active call, a callee's return  *)
(* value handed to its caller through `ret`, an exception unwinding the    *)
(* whole stack (the code has no try/except).  Type descriptors and core    *)
(* schemas are records.  Names of the source denote what they evidently    *)
(* name: BaseModel is the model base class, isinstance(arg, Literal) tests *)
(* whether arg is a Literal type, core_schema.x_schema(...) builds the     *)
(* schema node of kind x from its arguments.                               *)
(***************************************************************************)
EXTENDS Integers, Sequences, FiniteSets, TLC

\* ------------------------------------------------------------ bounds
\* Python's recursion limit, scaled down: the deepest call stack allowed.
RecursionLimit == 8
\* Most fields a declared model has.
MaxFields == 2
\* Most type arguments of a parametrized tuple or Union.
MaxArgs == 3
\* Deepest nesting of Literal inside Literal that is enumerated (0: flat).
MaxNest == 2
\* Top-level calls made on the one compiler instance.
MaxCalls == 2
\* Most metadata items of an Annotated type.
MaxMeta == 2
\* Most validators or serializers handed over for one field (at most 3).
MaxDecorators == 2

\* ------------------------------------------------------------ type descriptors
\* A type descriptor: a class, a str instance, a parametrized generic alias
\* (origin + args), a plain value (a Literal member) or the Ellipsis object.
Desc(k, n, a) == [kind |-> k, name |-> n, args |-> a]
Cls(n) == Desc("class", n, <<>>)
Gen(origin, a) == Desc("generic", origin, a)
Val(v) == Desc("value", v, <<>>)
Ellipsis == Desc("ellipsis", "...", <<>>)
StrObj == Desc("str_instance", "a string", <<>>)
\* typing.ForwardRef('name'), and the str 'name' used as an annotation.
ForwardRef(n) == Desc("forward_ref", n, <<>>)
StrRef(n) == Desc("str_instance", n, <<>>)

Primitives == {"str", "bool", "int", "float", "bytes"}
Containers == {"list", "dict", "set", "frozenset", "tuple"}
\* The declared model classes, and the one user class H whose attributes vary.
Models == {"A", "B"}
\* The model classes: the declared models, and D, which may derive from them.
ModelClasses == Models \cup {"D"}
FieldNames == <<"x", "y", "z">>

\* ------------------------------------------------------------ core schemas
\* A core schema node (pydantic_core's CoreSchema dict): its 'type', its child
\* schemas, a literal's values, a definition-ref's target / a body's own ref,
\* a model's class, field names, field validators and field serializers, and an
\* embedded 'definitions' bundle.
Schema(t, its) ==
    [type |-> t, items |-> its, values |-> <<>>, ref |-> "", cls |-> "",
     names |-> <<>>, definitions |-> <<>>, validators |-> <<>>, serializers |-> <<>>,
     function |-> <<>>]
\* Python's None, where a schema is expected.
None == Schema("<None>", <<>>)
any_schema == Schema("any", <<>>)
str_schema == Schema("str", <<>>)
bool_schema == Schema("bool", <<>>)
int_schema == Schema("int", <<>>)
float_schema == Schema("float", <<>>)
bytes_schema == Schema("bytes", <<>>)
list_schema(item) == Schema("list", <<item>>)
set_schema(item) == Schema("set", <<item>>)
frozenset_schema(item) == Schema("frozenset", <<item>>)
dict_schema(k, v) == Schema("dict", <<k, v>>)
tuple_variable_schema(item) == Schema("tuple-variable", <<item>>)
tuple_positional_schema(its) == Schema("tuple-positional", its)
union_schema(its) == Schema("union", its)
literal_schema(vals) == [Schema("literal", <<>>) EXCEPT !.values = vals]
model_schema(c, fnames, fschemas, validators, serializers) ==
    [Schema("model", fschemas) EXCEPT !.cls = c, !.names = fnames,
                                      !.validators = validators, !.serializers = serializers]
\* The function schemas of core_schema: 'function' is the dict {'type': ...,
\* 'function': f[, 'field_name': ...]}, 'schema' (items) the inner schema, which
\* the plain kinds have no parameter for.
no_info_function(f) == <<"no-info", f>>
with_info_function(f, field_name) == <<"with-info", f, field_name>>
\* core_schema.no_info_after_validator_function(f, schema)
no_info_after_validator_function(f, schema) ==
    [Schema("function-after", <<schema>>) EXCEPT !.cls = f, !.function = no_info_function(f)]
no_info_before_validator_function(f, schema) ==
    [Schema("function-before", <<schema>>) EXCEPT !.cls = f, !.function = no_info_function(f)]
no_info_wrap_validator_function(f, schema) ==
    [Schema("function-wrap", <<schema>>) EXCEPT !.cls = f, !.function = no_info_function(f)]
no_info_plain_validator_function(f) ==
    [Schema("function-plain", <<>>) EXCEPT !.cls = f, !.function = no_info_function(f)]
with_info_after_validator_function(f, schema, field_name) ==
    [Schema("function-after", <<schema>>)
        EXCEPT !.cls = f, !.function = with_info_function(f, field_name)]
with_info_before_validator_function(f, schema, field_name) ==
    [Schema("function-before", <<schema>>)
        EXCEPT !.cls = f, !.function = with_info_function(f, field_name)]
with_info_wrap_validator_function(f, schema, field_name) ==
    [Schema("function-wrap", <<schema>>)
        EXCEPT !.cls = f, !.function = with_info_function(f, field_name)]
with_info_plain_validator_function(f, field_name) ==
    [Schema("function-plain", <<>>)
        EXCEPT !.cls = f, !.function = with_info_function(f, field_name)]
\* core_schema.typed_dict_schema(fields, ...)
typed_dict_schema(fnames, fschemas) == [Schema("typed-dict", fschemas) EXCEPT !.names = fnames]
definition_reference_schema(r) == [Schema("definition-ref", <<>>) EXCEPT !.ref = r]

\* ------------------------------------------------------------ state
VARIABLES
    pydantic_fields,  \* cls.__pydantic_fields__ of each declared model: <<[name, annotation]>>
    hooked,           \* what the user class H is: [shape, hook, pre]
    mro,              \* cls.__mro__[1:] of each model class, the model classes in it
    pydantic_decorators, \* cls.__pydantic_decorators__ of each model class
    types_namespace,  \* the names the compiler's types namespace resolves
    call,             \* the top-level call in progress or last made: [op, obj, flag],
                      \* and, for a retry, the error the attempt before it ended with
    stack,            \* the Python call stack, innermost frame last
    ret,              \* the value a returning callee hands to its caller
    result,           \* how the top-level call ended: [st, val, err, code]
    seen,             \* self.defs.seen
    definitions,      \* self.defs.definitions: ref -> schema
    ncalls,           \* top-level calls made so far
    arg,              \* the object a call was handed to work on, as the call left it
    context,          \* the compiler's context stacks, each with its top last
    other_defs        \* the defs of a second GenerateSchema instance: [seen, definitions]

vars ==
    <<pydantic_fields, hooked, mro, pydantic_decorators, types_namespace,
      call, stack, ret, result, seen, definitions, ncalls, arg, context, other_defs>>

\* ------------------------------------------------------------ the classes
\* H subclasses one builtin (shape); it may define __get_pydantic_core_schema__
\* (hook: what calling it returns) and __pydantic_core_schema__ (pre: its value).
Shapes == (Primitives \ {"bool"}) \cup Containers
HookKinds == {"absent", "none", "schema", "bundle", "consult"}
PreKinds == {"absent", "none", "schema"}
HookedConfigs ==
    {h \in [shape : Shapes, hook : HookKinds, pre : PreKinds] :
        h.hook = "consult" => h.pre # "absent"}
NoHooked == [shape |-> "str", hook |-> "absent", pre |-> "absent"]

\* The schemas user code hands back.
CustomSchema == Schema("custom-from-hook", <<>>)
PreSchema == Schema("custom-precomputed", <<>>)
\* A schema carrying its own 'definitions' bundle, as an independent compile
\* call produces: the inner schema refers to the bundled body by ref.
BundleSchema ==
    [Schema("definitions", <<definition_reference_schema("R")>>)
        EXCEPT !.definitions = <<[Schema("custom-body", <<>>) EXCEPT !.ref = "R"]>>]

\* isinstance(obj, type)
IsType(obj) == obj.kind = "class"
\* The classes of the model's universe that appear in name's __mro__.
BuiltinMro(n) == IF n = "bool" THEN {"bool", "int", "object"} ELSE {n, "object"}
Mro(n) ==
    IF n \in ModelClasses THEN {"BaseModel", "object"}
    ELSE IF n = "H" THEN BuiltinMro(hooked.shape)
    ELSE BuiltinMro(n)
\* issubclass(obj, (c1, c2, ...))
IsSubclass(obj, classes) == Mro(obj.name) \cap classes # {}

\* ------------------------------------------------------------ hooks
\* hasattr(obj, '__get_pydantic_core_schema__')
HasGetSchema(obj) == obj.kind = "class" /\ obj.name = "H" /\ hooked.hook # "absent"
\* hasattr(obj, '__pydantic_core_schema__')
HasPrecomputed(obj) == obj.kind = "class" /\ obj.name = "H" /\ hooked.pre # "absent"
\* obj.__pydantic_core_schema__
PrecomputedAttr == IF hooked.pre = "schema" THEN PreSchema ELSE None
\* obj.__get_pydantic_core_schema__(source, self): what the user's hook returns.
\* A "consult" hook returns the class's precomputed attribute.
HookReturn ==
    CASE hooked.hook = "schema" -> CustomSchema
      [] hooked.hook = "bundle" -> BundleSchema
      [] hooked.hook = "consult" -> PrecomputedAttr
      [] OTHER -> None

\* GenerateSchema._generate_schema_from_property(obj, source)
_generate_schema_from_property(obj) ==
    IF HasGetSchema(obj) /\ HookReturn # None THEN HookReturn
    ELSE IF HasPrecomputed(obj) /\ PrecomputedAttr # None THEN PrecomputedAttr
    ELSE None

\* A hook that calls its handler back: `return handler(source)`, or
\* `return handler.generate_schema(B)` for the model B it nests. Such a hook
\* runs as frames of its own on the call stack.
CallbackKinds == {"handler_call", "handler_generate"}
CallbackConfigs == [shape : {"str"}, hook : CallbackKinds, pre : {"absent", "schema"}]
CallsBack(obj) == HasGetSchema(obj) /\ hooked.hook \in CallbackKinds

\* ------------------------------------------------------------ classification
\* The exact-class chain cut after the primitives: a container class goes on
\* to match_type.
Mutant_ExactSchema(obj) ==
    CASE obj.name = "str" -> str_schema
      [] obj.name = "bool" -> bool_schema
      [] obj.name = "int" -> int_schema
      [] obj.name = "float" -> float_schema
      [] obj.name = "bytes" -> bytes_schema
      [] OTHER -> None
\* generate_schema's exact-class chain (obj == str, obj == bool, ...): the schema
\* it returns, or None when no branch is taken.
ExactSchema(obj) ==
    CASE obj.name = "str" -> str_schema
      [] obj.name = "bool" -> bool_schema
      [] obj.name = "int" -> int_schema
      [] obj.name = "float" -> float_schema
      [] obj.name = "bytes" -> bytes_schema
      [] obj.name = "list" -> list_schema(any_schema)
      [] obj.name = "dict" -> dict_schema(any_schema, any_schema)
      [] obj.name = "set" -> set_schema(any_schema)
      [] obj.name = "frozenset" -> frozenset_schema(any_schema)
      [] obj.name = "tuple" -> tuple_variable_schema(any_schema)
      [] OTHER -> None

\* What a step of a method does next: return a schema, call a method, or raise.
DoReturn(v) == [act |-> "return", val |-> v, fn |-> "", err |-> ""]
DoCall(f) == [act |-> "call", val |-> None, fn |-> f, err |-> ""]
DoRaise(e) == [act |-> "raise", val |-> None, fn |-> "", err |-> e]

\* match_type's first block with the int test ahead of the bool test.
Mutant_MatchTypeClass(obj) ==
    IF IsSubclass(obj, {"BaseModel"}) THEN DoCall("_model_schema")
    ELSE IF IsSubclass(obj, {"list", "tuple", "set", "frozenset"})
        THEN DoReturn(list_schema(any_schema))
    ELSE IF IsSubclass(obj, {"dict"}) THEN DoReturn(dict_schema(any_schema, any_schema))
    ELSE IF IsSubclass(obj, {"int"}) THEN DoReturn(int_schema)
    ELSE IF IsSubclass(obj, {"bool"}) THEN DoReturn(bool_schema)
    ELSE IF IsSubclass(obj, {"float"}) THEN DoReturn(float_schema)
    ELSE IF IsSubclass(obj, {"str"}) THEN DoReturn(str_schema)
    ELSE IF IsSubclass(obj, {"bytes"}) THEN DoReturn(bytes_schema)
    ELSE DoReturn(any_schema)
\* match_type on a class: the issubclass chain of its first block; a class that
\* passes it reaches the final issubclass(obj, (object,)) test.
MatchTypeClass(obj) ==
    IF IsSubclass(obj, {"BaseModel"}) THEN DoCall("_model_schema")
    ELSE IF IsSubclass(obj, {"list", "tuple", "set", "frozenset"})
        THEN DoReturn(list_schema(any_schema))
    ELSE IF IsSubclass(obj, {"dict"}) THEN DoReturn(dict_schema(any_schema, any_schema))
    ELSE IF IsSubclass(obj, {"bool"}) THEN DoReturn(bool_schema)
    ELSE IF IsSubclass(obj, {"int"}) THEN DoReturn(int_schema)
    ELSE IF IsSubclass(obj, {"float"}) THEN DoReturn(float_schema)
    ELSE IF IsSubclass(obj, {"str"}) THEN DoReturn(str_schema)
    ELSE IF IsSubclass(obj, {"bytes"}) THEN DoReturn(bytes_schema)
    ELSE DoReturn(any_schema)
\* GenerateSchema.match_type(obj): every test after the first block starts with
\* isinstance(obj, type) or asks for an Annotated / ForwardRef / TypeVar /
\* TypeAliasType instance, so a generic alias, a str or a value reaches the raise.
MatchTypeCase(obj) ==
    IF IsType(obj) THEN MatchTypeClass(obj)
    ELSE IF obj.kind = "generic" /\ obj.name = "Annotated" THEN DoCall("_annotated_schema")
    ELSE IF obj.kind = "forward_ref" THEN DoCall("_forward_ref_schema")
    ELSE DoRaise("PydanticSchemaGenerationError")

\* ------------------------------------------------------------ literals
\* get_origin(tp) in LITERAL_TYPES / isinstance(arg, Literal): tp is a Literal[...]
IsLiteral(d) == d.kind = "generic" /\ d.name = "Literal"

RECURSIVE all_literal_values(_)
RECURSIVE AllLiteralValuesOf(_)
\* The loop of all_literal_values over get_args(type_).
AllLiteralValuesOf(args) ==
    IF args = <<>> THEN <<>>
    ELSE (IF IsLiteral(Head(args)) THEN all_literal_values(Head(args))
          ELSE <<Head(args)>>) \o AllLiteralValuesOf(Tail(args))
\* _typing_extra.all_literal_values(type_)
all_literal_values(type_) ==
    IF IsLiteral(type_) THEN AllLiteralValuesOf(type_.args) ELSE <<>>

RECURSIVE LiteralValuesLoop(_)
\* The loop of _literal_schema over its args: a member that is a Literal
\* contributes get_args(member) as they are, any other member itself.
LiteralValuesLoop(args) ==
    IF args = <<>> THEN <<>>
    ELSE (IF IsLiteral(Head(args)) THEN Head(args).args ELSE <<Head(args)>>)
         \o LiteralValuesLoop(Tail(args))
\* GenerateSchema._literal_schema(literal_type)
_literal_schema(literal_type) ==
    IF literal_type.args = <<>> THEN any_schema
    ELSE literal_schema(LiteralValuesLoop(literal_type.args))

\* ------------------------------------------------------------ Annotated metadata
\* A metadata item of Annotated[base, item, ...]: the user object `name`, with
\* or without __get_pydantic_core_schema__ (hook: what calling it does) and
\* __pydantic_core_schema__ (pre).
Meta(name, hook, pre) == Desc("metadata", name, <<hook, pre>>)
MetaHookKinds == {"absent", "wrap", "none"}
MetaPreKinds == {"absent", "schema"}
\* hasattr(meta, '__get_pydantic_core_schema__')
MetaHasGetSchema(meta) == meta.args[1] # "absent"
\* hasattr(meta, '__pydantic_core_schema__')
MetaHasPrecomputed(meta) == meta.args[2] # "absent"
\* meta.__get_pydantic_core_schema__(base_schema, self): a "wrap" hook returns a
\* validator node of its own around the schema it was handed, a "none" hook None.
MetaHookReturn(meta, base_schema) ==
    IF meta.args[1] = "wrap"
      THEN [Schema("function-after", <<base_schema>>) EXCEPT !.cls = meta.name]
      ELSE None
\* meta.__pydantic_core_schema__
MetaPrecomputedAttr(meta) == [PreSchema EXCEPT !.cls = meta.name]
\* One round of _annotated_schema's loop over the metadata.
ApplyMeta(base_schema, meta) ==
    IF MetaHasGetSchema(meta) THEN MetaHookReturn(meta, base_schema)
    ELSE IF MetaHasPrecomputed(meta) THEN MetaPrecomputedAttr(meta)
    ELSE base_schema
RECURSIVE Mutant_ApplyMetadata(_, _)
\* The loop run over reversed(metadata).
Mutant_ApplyMetadata(base_schema, metadata) ==
    IF metadata = <<>> THEN base_schema
    ELSE ApplyMeta(Mutant_ApplyMetadata(base_schema, Tail(metadata)), Head(metadata))
RECURSIVE ApplyMetadata(_, _)
\* `for meta in metadata: base_schema = ...`: the schema after the last item.
ApplyMetadata(base_schema, metadata) ==
    IF metadata = <<>> THEN base_schema
    ELSE ApplyMetadata(ApplyMeta(base_schema, Head(metadata)), Tail(metadata))

\* ------------------------------------------------------------ inputs
SeqsUpTo(S, lo, hi) == UNION {[1..n -> S] : n \in lo..hi}
Distinct(s) == \A i, j \in DOMAIN s : i # j => s[i] # s[j]

\* Field annotations of the declared models: a primitive or a model.
Annotations == {Cls("int")} \cup {Cls(m) : m \in Models}
FieldSeqs ==
    {[i \in 1..Len(a) |-> [name |-> FieldNames[i], annotation |-> a[i]]] :
        a \in SeqsUpTo(Annotations, 0, MaxFields)}
Declarations == [Models -> FieldSeqs]
NoDeclarations == [m \in Models |-> <<>>]

BuiltinClasses == {Cls(n) : n \in Primitives \cup Containers}
TupleTypes == {Gen("tuple", a) : a \in SeqsUpTo({Cls("int"), Cls("str"), Ellipsis}, 0, MaxArgs)}
\* typing.Union keeps distinct members and never a single one; the bare Union has none.
UnionMembers == {Cls("int"), Cls("str"), Cls("bool"), Gen("tuple", <<Cls("int")>>)}
UnionTypes ==
    {Gen("Union", a) : a \in {u \in SeqsUpTo(UnionMembers, 0, MaxArgs) : Len(u) # 1 /\ Distinct(u)}}
LitVals == {Val("1"), Val("2")}
RECURSIVE LitTypes(_)
LitTypes(k) ==
    IF k = 0 THEN {Gen("Literal", a) : a \in SeqsUpTo(LitVals, 1, 2)}
    ELSE UNION {{Gen("Literal", <<x>>), Gen("Literal", <<x, v>>), Gen("Literal", <<v, x>>)} :
                    x \in LitTypes(k - 1), v \in LitVals}
\* Literal[Literal[1, 2], Literal[2, 3], 4]
NestedExample ==
    Gen("Literal", <<Gen("Literal", <<Val("1"), Val("2")>>),
                     Gen("Literal", <<Val("2"), Val("3")>>), Val("4")>>)
LiteralTypes ==
    UNION {LitTypes(k) : k \in 0..MaxNest} \cup {NestedExample, Gen("Literal", <<>>)}

MetaItems == {Meta(n, h, p) : n \in {"m1", "m2"}, h \in MetaHookKinds, p \in MetaPreKinds}
AnnotatedTypes ==
    {Gen("Annotated", <<b>> \o m) :
        b \in {Cls("int"), Cls("str")}, m \in SeqsUpTo(MetaItems, 0, MaxMeta)}

\* d is a forward reference to a class: a ForwardRef, or a str naming one.
IsForwardRef(d) == d.kind = "forward_ref" \/ (d.kind = "str_instance" /\ d.name \in Models)
\* B's declaration names A by forward reference; A has primitive fields.
ForwardRefs == {ForwardRef("A"), StrRef("A")}
ForwardRefDeclarations ==
    {[m \in Models |-> IF m = "A" THEN a ELSE b] :
        a \in {<<>>, <<[name |-> "x", annotation |-> Cls("int")]>>},
        b \in {<<[name |-> "x", annotation |-> r]>> : r \in ForwardRefs}
              \cup {<<[name |-> "x", annotation |-> Cls("str")],
                      [name |-> "y", annotation |-> r]>> : r \in ForwardRefs}}
ForwardRefInputs ==
    ForwardRefs \cup {Cls("B")} \cup {Gen("Annotated", <<r>>) : r \in ForwardRefs}

\* Inheritance: D derives from a chain of the declared models, the most derived
\* first (class D(B), class B(A) gives <<"B", "A">>); each class's __mro__[1:].
Chains == {c \in SeqsUpTo(Models, 0, Cardinality(Models)) : Distinct(c)}
BasesOf(chain) ==
    [m \in ModelClasses |->
        IF m = "D" THEN chain
        ELSE IF \E i \in DOMAIN chain : chain[i] = m
          THEN SubSeq(chain, (CHOOSE i \in DOMAIN chain : chain[i] = m) + 1, Len(chain))
          ELSE <<>>]
\* Each class annotates the fields it declares with a type of its own, so that
\* a compiled field shows whose declaration it is.
OwnAnnotation(c) == CASE c = "A" -> Cls("int") [] c = "B" -> Cls("str") [] OTHER -> Cls("bool")
InheritedNames == {"x", "y"}
OwnFields(c) ==
    {[i \in DOMAIN n |-> [name |-> n[i], annotation |-> OwnAnnotation(c)]] :
        n \in {q \in SeqsUpTo(InheritedNames, 0, Cardinality(InheritedNames)) : Distinct(q)}}
InheritanceDeclarations ==
    {[m \in ModelClasses |-> CASE m = "A" -> a [] m = "B" -> b [] OTHER -> d] :
        a \in OwnFields("A"), b \in OwnFields("B"), d \in OwnFields("D")}
\* A decorator of a class: the function's name, the class that declares it, the
\* fields it is attached to.
Decorator(n, owner, fields) == [cls_var_name |-> n, cls_ref |-> owner, fields |-> fields]
OwnValidators(c) == {<<>>, <<Decorator("check", c, <<"x">>)>>}
OwnSerializers(c) ==
    {<<>>, <<Decorator("ser", c, <<"x">>)>>}
    \cup (IF c = "D"
           THEN {<<Decorator("ser", c, <<"x">>), Decorator("ser2", c, <<"x">>)>>}
           ELSE {})
DecoratorSets ==
    {[m \in ModelClasses |->
        [field_validators |-> CASE m = "A" -> va [] m = "B" -> vb [] OTHER -> vd,
         field_serializers |-> CASE m = "A" -> sa [] m = "B" -> sb [] OTHER -> sd]] :
        va \in OwnValidators("A"), vb \in OwnValidators("B"), vd \in OwnValidators("D"),
        sa \in OwnSerializers("A"), sb \in OwnSerializers("B"), sd \in OwnSerializers("D")}
\* Every class declares the field x the decorators are attached to.
DecoratedFields == [m \in ModelClasses |-> <<[name |-> "x", annotation |-> OwnAnnotation(m)]>>]

\* The decorators handed to apply_validators / _apply_field_serializers for the
\* field x: up to MaxDecorators of them, carried as the args of a descriptor.
DecoratorNames == <<"v1", "v2", "v3", "v4">>
DecoratorLists ==
    {Desc("decorators", "x", [i \in 1..n |-> Decorator(DecoratorNames[i], "D", <<"x">>)]) :
        n \in 0..MaxDecorators}

\* A TypedDict class: the module of its origin (typing or typing_extensions)
\* and the annotations of its keys, named as FieldNames names them.
TypedDictTypes ==
    {Desc("typeddict", mod, a) :
        mod \in {"typing", "typing_extensions"},
        a \in SeqsUpTo({Cls("int"), Cls("str")}, 0, MaxFields)}

\* The keys of _VALIDATOR_F_MATCH.
FieldValidatorModes == {"before", "after", "plain", "wrap"}
Conventions == {"no-info", "with-info"}
\* What a caller hands to an entry of _VALIDATOR_F_MATCH: the validator f with
\* its mode and calling convention, the inner schema and the field name (or None).
ValidatorCalls ==
    {Desc("validator", "check",
          <<[mode |-> m, convention |-> c, schema |-> s, field_name |-> n]>>) :
        m \in FieldValidatorModes, c \in Conventions,
        s \in {int_schema, list_schema(str_schema)}, n \in {"x", "None"}}

\* Alias generators: what the generator returns for a field name (a str, an
\* AliasPath, an AliasChoices, or an int), and the FieldInfo it is applied to,
\* each alias of which is None or given by the declarer.
AliasValues == {"'X'", "AliasPath('X')", "AliasChoices('X')", "1"}
AliasType(v) ==
    CASE v = "'X'" -> "str" [] v = "'given'" -> "str"
      [] v = "AliasPath('X')" -> "AliasPath"
      [] v = "AliasChoices('X')" -> "AliasChoices"
      [] v = "1" -> "int"
      [] OTHER -> "NoneType"
AliasGenerators ==
    {[kind |-> k, returns |-> v] : k \in {"callable", "AliasGenerator"}, v \in AliasValues}
FieldInfos ==
    [alias : {"None", "'given'"}, validation_alias : {"None", "'given'"},
     serialization_alias : {"None", "'given'"}]
AliasCalls ==
    {Desc("field_info", "x", <<[alias_generator |-> g, field_info |-> fi]>>) :
        g \in AliasGenerators, fi \in FieldInfos}

\* Errors: the message (a text kept as the sequence of its pieces) and the code
\* (None or a str) an error is constructed with, and the short version of the
\* running pydantic that version_short() gives at import.
Messages == {<<>>, <<"Unable to generate schema for X">>}
Codes == {"None", "", "validator-field", "schema-for-unknown-type"}
Versions == {"2.7", "2.8"}
ErrorCalls ==
    {Desc("error", "PydanticUserError", <<[message |-> m, code |-> c, version |-> v]>>) :
        m \in Messages, c \in Codes, v \in Versions}

\* Field decorators as check_decorator_fields_exist reads them: dec.info.check_fields
\* (True, False or None) and dec.info.fields, and the field names of the model.
FieldDecorator(check_fields, fields) == [info |-> [check_fields |-> check_fields, fields |-> fields]]
FieldDecorators ==
    {FieldDecorator(c, f) : c \in {"True", "False", "None"},
                            f \in {<<>>, <<"x">>, <<"*", "q">>, <<"x", "q">>}}
CheckCalls ==
    {Desc("check", "decorators", <<[decorators |-> d, fields |-> f]>>) :
        d \in SeqsUpTo(FieldDecorators, 0, MaxDecorators), f \in {<<"x">>, <<"x", "q">>}}

\* The schemas handed to _unpack_refs_defs: one without 'definitions', and
\* definitions schemas whose list holds a body of two keys ('type', 'ref'), a
\* model body of more keys, or both.
ModelBody == [model_schema("A", <<>>, <<>>, <<>>, <<>>) EXCEPT !.ref = "A"]
UnpackSchemas ==
    {int_schema, BundleSchema,
     [Schema("definitions", <<definition_reference_schema("A")>>)
        EXCEPT !.definitions = <<ModelBody>>],
     [Schema("definitions", <<definition_reference_schema("A")>>)
        EXCEPT !.definitions = BundleSchema.definitions \o <<ModelBody>>]}

\* The model B a calling-back hook nests: self-referential (a field of its own
\* type), or of primitive fields.
NestedDeclarations ==
    {[m \in Models |-> IF m = "B" THEN <<[name |-> "x", annotation |-> a]>> ELSE <<>>] :
        a \in {Cls("B"), Cls("int")}}

\* What the second compiler instance unpacks: a definitions schema whose list
\* holds one body of the two keys 'type' and 'cls'.
OtherSchemas ==
    {[Schema("definitions", <<definition_reference_schema("T")>>)
        EXCEPT !.definitions = <<[Schema("model", <<>>) EXCEPT !.cls = "T"]>>]}

\* ------------------------------------------------------------ the call stack
\* A frame also remembers the context stacks as they were when it was entered.
Frame(fn, obj, flag) ==
    [fn |-> fn, obj |-> obj, flag |-> flag, pc |-> "enter", acc |-> <<>>, ctx |-> context]
Top == stack[Len(stack)]
Running == [st |-> "running", val |-> None, err |-> "", code |-> ""]
Idle == [st |-> "idle", val |-> None, err |-> "", code |-> ""]
Returned(v) == [st |-> "returned", val |-> v, err |-> "", code |-> ""]
\* The `code` an exception of class e is constructed with when the raise site
\* passes none: the pydantic errors that fix it in __init__; "" for an exception
\* that has no code attribute.
ErrorCode(e) ==
    CASE e = "PydanticSchemaGenerationError" -> "schema-for-unknown-type"
      [] e = "PydanticUndefinedAnnotation" -> "undefined-annotation"
      [] OTHER -> ""
RaisedWith(e, code) == [st |-> "raised", val |-> None, err |-> e, code |-> code]
Raised(e) == RaisedWith(e, ErrorCode(e))

\* `return v` in the innermost frame.
Return(v) ==
    /\ stack' = SubSeq(stack, 1, Len(stack) - 1)
    /\ IF Len(stack) = 1
         THEN result' = Returned(v) /\ ret' = None
         ELSE ret' = v /\ UNCHANGED result
\* An exception: nothing in the compiler catches it, the top-level call ends with it.
RaiseWith(e, code) ==
    /\ stack' = <<>>
    /\ ret' = None
    /\ result' = RaisedWith(e, code)
Raise(e) == RaiseWith(e, ErrorCode(e))
\* The innermost frame, having collected acc, calls self.fn(obj, flag); the
\* interpreter raises RecursionError when the stack is full.
CallFrom(acc, fn, obj, flag) ==
    IF Len(stack) >= RecursionLimit THEN Raise("RecursionError")
    ELSE /\ stack' = Append([stack EXCEPT ![Len(stack)].pc = "wait",
                                          ![Len(stack)].acc = acc],
                            Frame(fn, obj, flag))
         /\ ret' = None
         /\ UNCHANGED result
\* A loop `for arg in args: schemas.append(self.generate_schema(arg))` followed by
\* `return finish`: acc is what has been appended so far.
CompileEach(acc, args, finish) ==
    IF Len(acc) < Len(args)
      THEN CallFrom(acc, "generate_schema", args[Len(acc) + 1], TRUE)
      ELSE Return(finish)
\* schemas.insert(0, schema)
Mutant_AppendSchema(schemas, schema) == <<schema>> \o schemas
\* schemas.append(schema)
AppendSchema(schemas, schema) == Append(schemas, schema)
\* What the innermost frame has collected, the callee's value included.
Collected == IF Top.pc = "enter" THEN <<>> ELSE AppendSchema(Top.acc, ret)

Env == <<pydantic_fields, hooked, mro, pydantic_decorators, types_namespace, arg>>
\* No object is handed over.
NoArg == [kind |-> "none"]
\* The class attributes beside __pydantic_fields__: no model bases, no decorators.
NoBases == [m \in ModelClasses |-> <<>>]
NoDecorators ==
    [m \in ModelClasses |-> [field_validators |-> <<>>, field_serializers |-> <<>>]]
Registry == <<seen, definitions>>

\* ------------------------------------------------------------ the methods
\* GenerateSchema.generate_schema(obj, from_dunder_get_core_schema)
GenerateSchema ==
    /\ stack # <<>> /\ Top.fn = "generate_schema"
    /\ IF Top.pc = "wait" /\ Top.acc = <<>> THEN Return(ret)
       ELSE IF Top.pc = "enter" /\ Top.flag /\ CallsBack(Top.obj)
         THEN CallFrom(<<None>>, "_generate_schema_from_property", Top.obj, TRUE)
       ELSE LET obj == Top.obj
                schema == IF Top.pc = "wait" THEN ret
                          ELSE IF Top.flag THEN _generate_schema_from_property(obj)
                          ELSE None
            IN  IF schema # None THEN Return(schema)
                ELSE IF obj.kind = "str_instance" THEN Return(str_schema)
                ELSE IF IsType(obj) /\ ExactSchema(obj) # None THEN Return(ExactSchema(obj))
                ELSE CallFrom(<<>>, "match_type", obj, TRUE)
    /\ UNCHANGED <<Env, Registry, call, ncalls, context, other_defs>>

\* _generate_schema_from_property(obj, source) for a hook that calls back:
\* obj.__get_pydantic_core_schema__(source, self), then the precomputed
\* attribute when the hook gave None.
GenerateSchemaFromProperty ==
    /\ stack # <<>> /\ Top.fn = "_generate_schema_from_property"
    /\ IF Top.pc = "enter"
         THEN CallFrom(<<>>, "__get_pydantic_core_schema__", Top.obj, TRUE)
       ELSE IF ret # None THEN Return(ret)
       ELSE IF HasPrecomputed(Top.obj) /\ PrecomputedAttr # None THEN Return(PrecomputedAttr)
       ELSE Return(None)
    /\ UNCHANGED <<Env, Registry, call, ncalls, context, other_defs>>
\* The user's hook, handed the compiler itself as handler: GenerateSchema
\* defines no __call__, so handler(source) is a TypeError;
\* handler.generate_schema(B) re-enters the compiler on the same instance.
GetPydanticCoreSchema ==
    /\ stack # <<>> /\ Top.fn = "__get_pydantic_core_schema__"
    /\ IF Top.pc = "wait" THEN Return(ret)
       ELSE IF hooked.hook = "handler_call" THEN Raise("TypeError")
       ELSE CallFrom(<<>>, "generate_schema", Cls("B"), TRUE)
    /\ UNCHANGED <<Env, Registry, call, ncalls, context, other_defs>>

\* self._config_wrapper_stack.get(): the entry on top, the stack left as it is.
ConfigWrapperStackGet(s) == [value |-> s[Len(s)], stack |-> s]
Mutant_EnterModelSchema(ctx, cls) ==
    [ctx EXCEPT !.model_type_stack = Append(@, cls.name)]
\* What entering _model_schema(cls) does to the context stacks: it reads the
\* config wrapper on top, and pushes nothing.
EnterModelSchema(ctx, cls) ==
    [ctx EXCEPT !.config_wrapper_stack = ConfigWrapperStackGet(@).stack]

\* The methods the class GenerateSchema defines, among those match_type names.
Methods == {"_model_schema", "_annotated_schema", "_tuple_schema", "_union_schema"}

\* GenerateSchema.match_type(obj): looking up a method the class does not
\* define (and __slots__ leaves no instance dict) raises AttributeError.
MatchType ==
    /\ stack # <<>> /\ Top.fn = "match_type"
    /\ IF Top.pc = "wait" THEN Return(ret)
       ELSE LET c == MatchTypeCase(Top.obj)
            IN  CASE c.act = "return" -> Return(c.val)
                  [] c.act = "raise" -> Raise(c.err)
                  [] c.act = "call" /\ c.fn \notin Methods -> Raise("AttributeError")
                  [] OTHER -> CallFrom(<<>>, c.fn, Top.obj, TRUE)
    /\ UNCHANGED <<Env, Registry, call, ncalls, context, other_defs>>

RECURSIVE DictUpdate(_, _)
\* d.update(items) on a dict kept as the sequence of its items: the value of a
\* key d holds is replaced where it stands, a new key is added at the end.
DictUpdate(d, items) ==
    IF items = <<>> THEN d
    ELSE LET it == Head(items)
             upd == IF \E i \in DOMAIN d : d[i].name = it.name
                      THEN [i \in DOMAIN d |-> IF d[i].name = it.name THEN it ELSE d[i]]
                      ELSE Append(d, it)
         IN  DictUpdate(upd, Tail(items))
RECURSIVE BaseFields(_)
\* `for base in reversed(cls.__mro__[1:]): fields.update(base.__pydantic_fields__)`,
\* bases being cls.__mro__[1:]: the last base is the first to be merged.
BaseFields(bases) ==
    IF bases = <<>> THEN <<>>
    ELSE DictUpdate(BaseFields(Tail(bases)), pydantic_fields[Head(bases)])
\* The merge with the class's own fields going in first and the bases' over them.
Mutant_GatherFields(cls) ==
    DictUpdate(pydantic_fields[cls.name], BaseFields(mro[cls.name]))
\* The fields _model_schema gathers for cls: the bases' (BaseModel and object
\* contribute none), then `fields.update(cls.__pydantic_fields__)`.
GatherFields(cls) ==
    DictUpdate(BaseFields(mro[cls.name]), pydantic_fields[cls.name])
RECURSIVE BaseDecorators(_, _)
\* `validators.extend(base.__pydantic_decorators__.field_validators)` (kind
\* "field_validators"; likewise "field_serializers") over reversed(cls.__mro__[1:]).
BaseDecorators(bases, kind) ==
    IF bases = <<>> THEN <<>>
    ELSE BaseDecorators(Tail(bases), kind) \o pydantic_decorators[Head(bases)][kind]
\* The validators / serializers list _model_schema ends with.
GatherDecorators(cls, kind) ==
    BaseDecorators(mro[cls.name], kind) \o pydantic_decorators[cls.name][kind]
FieldAnnotations(cls) == [i \in DOMAIN GatherFields(cls) |-> GatherFields(cls)[i].annotation]
FieldNamesOf(cls) == [i \in DOMAIN GatherFields(cls) |-> GatherFields(cls)[i].name]

\* GenerateSchema._model_schema(cls)
ModelSchema ==
    /\ stack # <<>> /\ Top.fn = "_model_schema"
    /\ CompileEach(Collected, FieldAnnotations(Top.obj),
                   model_schema(Top.obj.name, FieldNamesOf(Top.obj), Collected,
                                GatherDecorators(Top.obj, "field_validators"),
                                GatherDecorators(Top.obj, "field_serializers")))
    /\ context' = IF Top.pc = "enter" THEN EnterModelSchema(context, Top.obj) ELSE context
    /\ UNCHANGED <<Env, Registry, call, ncalls, other_defs>>

\* tuple[X, ...]: two arguments, the second the Ellipsis
IsVariadic(args) == Len(args) = 2 /\ args[2] = Ellipsis
\* GenerateSchema._tuple_schema(tuple_type)
TupleSchema ==
    /\ stack # <<>> /\ Top.fn = "_tuple_schema"
    /\ LET args == Top.obj.args
       IN  IF args = <<>> THEN Return(tuple_variable_schema(any_schema))
           ELSE IF IsVariadic(args)
             THEN IF Top.pc = "enter"
                    THEN CallFrom(<<>>, "generate_schema", args[1], TRUE)
                    ELSE Return(tuple_variable_schema(ret))
           ELSE CompileEach(Collected, args, tuple_positional_schema(Collected))
    /\ UNCHANGED <<Env, Registry, call, ncalls, context, other_defs>>

\* GenerateSchema._union_schema(union_type)
UnionSchema ==
    /\ stack # <<>> /\ Top.fn = "_union_schema"
    /\ LET args == Top.obj.args
       IN  IF args = <<>> THEN Return(any_schema)
           ELSE CompileEach(Collected, args, union_schema(Collected))
    /\ UNCHANGED <<Env, Registry, call, ncalls, context, other_defs>>

\* GenerateSchema._annotated_schema(annotated_type)
AnnotatedSchema ==
    /\ stack # <<>> /\ Top.fn = "_annotated_schema"
    /\ LET args == Top.obj.args
       IN  IF args = <<>> THEN Return(any_schema)
           ELSE IF Top.pc = "enter" THEN CallFrom(<<>>, "generate_schema", args[1], TRUE)
           ELSE Return(ApplyMetadata(ret, Tail(args)))
    /\ UNCHANGED <<Env, Registry, call, ncalls, context, other_defs>>

\* sys.version_info >= (3, 12): the model's runtime is Python 3.11.
_SUPPORTS_TYPEDDICT == FALSE
\* GenerateSchema._typed_dict_schema(typed_dict_cls, origin)
TypedDictSchema ==
    /\ stack # <<>> /\ Top.fn = "_typed_dict_schema"
    /\ IF ~_SUPPORTS_TYPEDDICT /\ Top.obj.name = "typing"
         THEN RaiseWith("PydanticUserError", "typing-typeddict")
         ELSE CompileEach(Collected, Top.obj.args,
                          typed_dict_schema(SubSeq(FieldNames, 1, Len(Top.obj.args)), Collected))
    /\ UNCHANGED <<Env, Registry, call, ncalls, context, other_defs>>

\* ------------------------------------------------------------ decorators
\* apply_validators(schema, validators, field_name): the body is `pass`, the
\* call returns None whatever it is given.
apply_validators(schema, validators, field_name) == None
\* GenerateSchema._apply_field_serializers(schema, serializers): the body is
\* `pass`, the call returns None and raises nothing.
_apply_field_serializers(schema, serializers) == None

Mutant_VALIDATOR_F_MATCH(mode, convention, f, schema, field_name) ==
    CASE convention = "no-info" /\ mode = "before" -> no_info_before_validator_function(f, schema)
      [] convention = "no-info" /\ mode = "after" -> no_info_after_validator_function(f, schema)
      [] convention = "no-info" /\ mode = "plain" -> no_info_wrap_validator_function(f, schema)
      [] convention = "no-info" /\ mode = "wrap" -> no_info_wrap_validator_function(f, schema)
      [] convention = "with-info" /\ mode = "before" ->
            with_info_before_validator_function(f, schema, field_name)
      [] convention = "with-info" /\ mode = "after" ->
            with_info_after_validator_function(f, schema, field_name)
      [] convention = "with-info" /\ mode = "plain" ->
            with_info_plain_validator_function(f, field_name)
      [] convention = "with-info" /\ mode = "wrap" ->
            with_info_wrap_validator_function(f, schema, field_name)
\* _VALIDATOR_F_MATCH[(mode, convention)](f, schema, field_name)
_VALIDATOR_F_MATCH(mode, convention, f, schema, field_name) ==
    CASE convention = "no-info" /\ mode = "before" -> no_info_before_validator_function(f, schema)
      [] convention = "no-info" /\ mode = "after" -> no_info_after_validator_function(f, schema)
      [] convention = "no-info" /\ mode = "plain" -> no_info_plain_validator_function(f)
      [] convention = "no-info" /\ mode = "wrap" -> no_info_wrap_validator_function(f, schema)
      [] convention = "with-info" /\ mode = "before" ->
            with_info_before_validator_function(f, schema, field_name)
      [] convention = "with-info" /\ mode = "after" ->
            with_info_after_validator_function(f, schema, field_name)
      [] convention = "with-info" /\ mode = "plain" ->
            with_info_plain_validator_function(f, field_name)
      [] convention = "with-info" /\ mode = "wrap" ->
            with_info_wrap_validator_function(f, schema, field_name)

\* alias_generator(field_name), and the validation_alias / serialization_alias
\* callables of an AliasGenerator instance
Generated(alias_generator, field_name) == alias_generator.returns
\* GenerateSchema._apply_alias_generator_to_field_info: the FieldInfo as the
\* call leaves it (the function itself returns None).
_apply_alias_generator_to_field_info(alias_generator, field_info, field_name) ==
    IF field_info.alias = "None" /\ field_info.validation_alias = "None"
        /\ field_info.serialization_alias = "None"
      THEN IF alias_generator.kind = "AliasGenerator"
             THEN [field_info EXCEPT
                     !.validation_alias = Generated(alias_generator, field_name),
                     !.serialization_alias = Generated(alias_generator, field_name)]
             ELSE [field_info EXCEPT !.alias = Generated(alias_generator, field_name)]
      ELSE field_info

\* errors.py: DEV_ERROR_DOCS_URL, for the value version_short() returned
DEV_ERROR_DOCS_URL(version) == <<"https://errors.pydantic.dev/", version, "/u/">>
\* PydanticErrorMixin.__init__(message, code=code)
PydanticErrorMixin(message, code) == [message |-> message, code |-> code]
Mutant___str__(self, version) ==
    IF self.code \in {"None", ""} THEN self.message
    ELSE self.message \o <<"\n\nFor further information visit ">>
            \o DEV_ERROR_DOCS_URL(version) \o <<self.code>>
\* PydanticErrorMixin.__str__
__str__(self, version) ==
    IF self.code = "None" THEN self.message
    ELSE self.message \o <<"\n\nFor further information visit ">>
            \o DEV_ERROR_DOCS_URL(version) \o <<self.code>>

\* bool(v) of True, False or None
Truthy(v) == v = "True"
\* `x in t` for a tuple or list t
In(x, t) == \E i \in DOMAIN t : t[i] = x
Mutant_DecoratorRaises(dec, fields_set) ==
    /\ Truthy(dec.info.check_fields) /\ dec.info.fields # <<>>
    /\ \E i \in DOMAIN dec.info.fields : dec.info.fields[i] \notin fields_set
\* One turn of the loop of check_decorator_fields_exist: does it raise for dec?
DecoratorRaises(dec, fields_set) ==
    /\ Truthy(dec.info.check_fields) /\ dec.info.fields # <<>> /\ ~In("*", dec.info.fields)
    /\ \E i \in DOMAIN dec.info.fields : dec.info.fields[i] \notin fields_set
\* check_decorator_fields_exist(decorators, fields)
check_decorator_fields_exist(decorators, fields) ==
    LET fields_set == {fields[i] : i \in DOMAIN fields}
    IN  IF \E i \in DOMAIN decorators : DecoratorRaises(decorators[i], fields_set)
          THEN RaisedWith("PydanticUserError", "validator-field")
          ELSE Returned(None)

\* ------------------------------------------------------------ the registry
\* _Definitions.get_schema_or_ref(tp): a @contextmanager whose body is `pass`.
\* Calling it builds the context manager around the body's return value, None;
\* entering it (`with self.defs.get_schema_or_ref(tp) as (ref, schema)`) calls
\* next(None): TypeError.  Nothing is yielded, seen and definitions are not touched.
get_schema_or_ref(tp) == [outcome |-> Raised("TypeError"), seen |-> seen]

\* list(d) of a schema dict d: its keys in insertion order; a key the schema
\* was built without is absent.
Keys(d) ==
    <<"type">> \o (IF d.cls # "" THEN <<"cls">> ELSE <<>>)
               \o (IF d.items # <<>> THEN <<"schema">> ELSE <<>>)
               \o (IF d.ref # "" THEN <<"ref">> ELSE <<>>)
\* d[k] = v on a dict kept as a function
SetItem(d, k, v) == [x \in DOMAIN d \cup {k} |-> IF x = k THEN v ELSE d[x]]
RECURSIVE Update(_, _)
\* d.update(elems) for a list elems: each element is unpacked as a (key, value)
\* pair, which for an element that is a dict means its keys, and raises
\* ValueError unless there are exactly two of them; the items taken before
\* the error stay in d. A str stored as a value is carried as a "<str>" node.
Update(d, elems) ==
    IF elems = <<>> THEN [d |-> d, err |-> ""]
    ELSE IF Len(Keys(Head(elems))) # 2 THEN [d |-> d, err |-> "ValueError"]
    ELSE Update(SetItem(d, Keys(Head(elems))[1],
                        [Schema("<str>", <<>>) EXCEPT !.values = <<Keys(Head(elems))[2]>>]),
                Tail(elems))
\* {k: v for k, v in schema.items() if k != 'definitions'}
WithoutDefinitions(schema) == [schema EXCEPT !.definitions = <<>>]
\* GenerateSchema._unpack_refs_defs(schema): how it ends, and self.defs.definitions
\* after it; a schema without the key has definitions <<>>.
_unpack_refs_defs(schema) ==
    IF schema.definitions # <<>>
      THEN LET u == Update(definitions, schema.definitions)
           IN  [outcome |-> IF u.err # "" THEN Raised(u.err)
                            ELSE Returned(WithoutDefinitions(schema)),
                definitions |-> u.d]
      ELSE [outcome |-> Returned(schema), definitions |-> definitions]

\* GenerateSchema.__init__: the config wrapper stack and the types namespace
\* stack start with the one entry they are constructed with, the field name
\* stack and the model type stack empty.
InitialContext ==
    [config_wrapper_stack |-> <<"config_wrapper">>,
     types_namespace_stack |-> <<"types_namespace">>,
     field_name_stack |-> <<>>,
     model_type_stack |-> <<>>]

\* The _Definitions object shared by every instance.
Mutant_Defs(instance) == 1
\* GenerateSchema.__init__: self.defs = _Definitions(), an object of the
\* instance's own, with a set and a dict built in _Definitions.__init__.
Defs(instance) == instance
\* The second instance runs its _unpack_refs_defs(schema), once, at any moment
\* of the first instance's calls: the update goes to the definitions of the
\* object its self.defs is.
OtherUnpackRefsDefs ==
    /\ other_defs.definitions = <<>>
    /\ \E s \in OtherSchemas :
         IF Defs(2) = Defs(1)
           THEN /\ definitions' = Update(definitions, s.definitions).d
                /\ UNCHANGED other_defs
           ELSE /\ other_defs' = [other_defs EXCEPT
                                    !.definitions = Update(@, s.definitions).d]
                /\ UNCHANGED definitions
    /\ UNCHANGED <<Env, call, ncalls, context, stack, ret, result, seen>>

\* ------------------------------------------------------------ top-level calls
CanCall == stack = <<>> /\ result.st = "idle" /\ ncalls < MaxCalls
NoCall == [op |-> "", obj |-> StrObj, flag |-> TRUE, after |-> ""]
\* A caller invokes the method op of the compiler on obj, the classes being as
\* decl, bases and decs declare them.
StartOn(op, obj, flag, decl, bases, decs) ==
    /\ call' = [op |-> op, obj |-> obj, flag |-> flag, after |-> ""]
    /\ pydantic_fields' = decl
    /\ mro' = bases
    /\ pydantic_decorators' = decs
    /\ hooked' = NoHooked
    /\ stack' = <<Frame(op, obj, flag)>>
    /\ result' = Running
    /\ ret' = None
    /\ ncalls' = ncalls + 1
    /\ arg' = NoArg
    /\ UNCHANGED <<Registry, types_namespace, context, other_defs>>
\* A caller invokes the method op of the compiler on obj.
Start(op, obj, flag, decl, h) ==
    /\ call' = [op |-> op, obj |-> obj, flag |-> flag, after |-> ""]
    /\ pydantic_fields' = decl
    /\ hooked' = h
    /\ mro' = NoBases
    /\ pydantic_decorators' = NoDecorators
    /\ stack' = <<Frame(op, obj, flag)>>
    /\ result' = Running
    /\ ret' = None
    /\ ncalls' = ncalls + 1
    /\ arg' = NoArg
    /\ UNCHANGED <<Registry, types_namespace, context, other_defs>>
\* A method that calls nothing back runs to its end in one step.
Atomic(op, obj, h, outcome) ==
    /\ call' = [op |-> op, obj |-> obj, flag |-> TRUE, after |-> ""]
    /\ pydantic_fields' = NoDeclarations
    /\ hooked' = h
    /\ result' = outcome
    /\ ncalls' = ncalls + 1
    /\ arg' = NoArg
    /\ UNCHANGED <<stack, ret, mro, pydantic_decorators, types_namespace, context, other_defs>>
\* A function that calls nothing back and works on the object it is handed
\* runs to its end in one step and leaves the object as `after`.
AtomicOn(op, obj, outcome, after) ==
    /\ call' = [op |-> op, obj |-> obj, flag |-> TRUE, after |-> ""]
    /\ pydantic_fields' = NoDeclarations
    /\ hooked' = NoHooked
    /\ result' = outcome
    /\ ncalls' = ncalls + 1
    /\ arg' = after
    /\ UNCHANGED <<stack, ret, mro, pydantic_decorators, types_namespace, context, other_defs>>

\* generate_schema on a builtin class, a str, or a parametrized tuple / Union / Literal
CallGenerateSchema ==
    /\ CanCall
    /\ \E obj \in BuiltinClasses \cup {StrObj} \cup TupleTypes \cup UnionTypes, flag \in BOOLEAN :
        Start("generate_schema", obj, flag, NoDeclarations, NoHooked)
\* generate_schema on the user class H
CallGenerateSchemaHooked ==
    /\ CanCall
    /\ \E h \in HookedConfigs, flag \in BOOLEAN :
        Start("generate_schema", Cls("H"), flag, NoDeclarations, h)
\* generate_schema on a declared model
CallGenerateSchemaModel ==
    /\ CanCall
    /\ \E m \in Models, decl \in Declarations :
        Start("generate_schema", Cls(m), TRUE, decl, NoHooked)
CallMatchType ==
    /\ CanCall
    /\ \E obj \in BuiltinClasses \cup {StrObj} \cup TupleTypes \cup {ForwardRef("A")} :
        Start("match_type", obj, TRUE, NoDeclarations, NoHooked)
CallTupleSchema ==
    /\ CanCall
    /\ \E t \in TupleTypes : Start("_tuple_schema", t, TRUE, NoDeclarations, NoHooked)
CallUnionSchema ==
    /\ CanCall
    /\ \E u \in UnionTypes : Start("_union_schema", u, TRUE, NoDeclarations, NoHooked)
\* _annotated_schema on an Annotated type, directly or through generate_schema
CallAnnotatedSchema ==
    /\ CanCall
    /\ \E t \in AnnotatedTypes, op \in {"_annotated_schema", "generate_schema"} :
        Start(op, t, TRUE, NoDeclarations, NoHooked)
\* generate_schema on a forward reference, or on a type that holds one
CallGenerateSchemaForwardRef ==
    /\ CanCall
    /\ \E obj \in ForwardRefInputs, decl \in ForwardRefDeclarations :
        Start("generate_schema", obj, TRUE, decl, NoHooked)
\* The names of the forward references that obj is, or holds as an item or field.
ForwardNames(obj) ==
    {d.name : d \in {x \in {obj} \cup {obj.args[i] : i \in DOMAIN obj.args}
                              \cup (IF obj.kind = "class" /\ obj.name \in Models
                                      THEN {pydantic_fields[obj.name][i].annotation :
                                                i \in DOMAIN pydantic_fields[obj.name]}
                                      ELSE {}) : IsForwardRef(x)}}
\* The caller of a compile that failed on a forward reference makes the whole
\* top-level call again once the names resolve, on a new GenerateSchema
\* instance: new registry, a types namespace that holds the names.
Retry ==
    /\ stack = <<>> /\ result.st = "raised" /\ ncalls < MaxCalls
    /\ call.op = "generate_schema" /\ call.after = ""
    /\ ForwardNames(call.obj) # {}
    /\ types_namespace' = types_namespace \cup ForwardNames(call.obj)
    /\ seen' = {}
    /\ definitions' = <<>>
    /\ call' = [call EXCEPT !.after = result.err]
    /\ stack' = <<Frame(call.op, call.obj, call.flag)>>
    /\ result' = Running
    /\ ret' = None
    /\ ncalls' = ncalls + 1
    /\ UNCHANGED <<pydantic_fields, hooked, mro, pydantic_decorators, arg, context, other_defs>>
\* generate_schema on the model D that derives from a chain of models
CallGenerateSchemaDerived ==
    /\ CanCall
    /\ \E decl \in InheritanceDeclarations, chain \in Chains :
        StartOn("generate_schema", Cls("D"), TRUE, decl, BasesOf(chain), NoDecorators)
\* generate_schema on D, the classes of its chain declaring validators and serializers
CallGenerateSchemaDecorated ==
    /\ CanCall
    /\ \E decs \in DecoratorSets, chain \in Chains :
        StartOn("generate_schema", Cls("D"), TRUE, DecoratedFields, BasesOf(chain), decs)
\* apply_validators(int_schema, validators, 'x'), the validators mode 'after'
CallApplyValidators ==
    /\ CanCall
    /\ \E d \in DecoratorLists :
         Atomic("apply_validators", d, NoHooked,
                Returned(apply_validators(int_schema, d.args, d.name)))
    /\ UNCHANGED Registry
\* self._apply_field_serializers(int_schema, serializers)
CallApplyFieldSerializers ==
    /\ CanCall
    /\ \E d \in DecoratorLists :
         Atomic("_apply_field_serializers", d, NoHooked,
                Returned(_apply_field_serializers(int_schema, d.args)))
    /\ UNCHANGED Registry
CallTypedDictSchema ==
    /\ CanCall
    /\ \E t \in TypedDictTypes : Start("_typed_dict_schema", t, TRUE, NoDeclarations, NoHooked)
\* _VALIDATOR_F_MATCH[(mode, convention)](f, schema, field_name)
CallValidatorFMatch ==
    /\ CanCall
    /\ \E v \in ValidatorCalls :
         LET a == v.args[1]
         IN  Atomic("_VALIDATOR_F_MATCH", v, NoHooked,
                    Returned(_VALIDATOR_F_MATCH(a.mode, a.convention, v.name,
                                                a.schema, a.field_name)))
    /\ UNCHANGED Registry
\* GenerateSchema._apply_alias_generator_to_field_info(alias_generator, field_info, 'x')
CallApplyAliasGenerator ==
    /\ CanCall
    /\ \E c \in AliasCalls :
         LET a == c.args[1]
         IN  AtomicOn("_apply_alias_generator_to_field_info", c, Returned(None),
                      _apply_alias_generator_to_field_info(a.alias_generator, a.field_info,
                                                           c.name))
    /\ UNCHANGED Registry
\* str(PydanticUserError(message, code=code)); the text is carried as the values
\* of a "<str>" node.
CallStr ==
    /\ CanCall
    /\ \E c \in ErrorCalls :
         LET a == c.args[1]
             self == PydanticErrorMixin(a.message, a.code)
         IN  AtomicOn("__str__", c,
                      Returned([Schema("<str>", <<>>) EXCEPT !.values = __str__(self, a.version)]),
                      self)
    /\ UNCHANGED Registry
\* check_decorator_fields_exist(decorators, fields): it assigns to nothing but
\* its local fields_set.
CallCheckDecoratorFieldsExist ==
    /\ CanCall
    /\ \E c \in CheckCalls :
         LET a == c.args[1]
         IN  AtomicOn("check_decorator_fields_exist", c,
                      check_decorator_fields_exist(a.decorators, a.fields), a)
    /\ UNCHANGED Registry
\* self._unpack_refs_defs(schema): schema is rebound to a new dict, the dict
\* handed in is read only.
CallUnpackRefsDefs ==
    /\ CanCall
    /\ \E s \in UnpackSchemas :
         /\ AtomicOn("_unpack_refs_defs", Desc("schema", "", <<s>>),
                     _unpack_refs_defs(s).outcome, s)
         /\ definitions' = _unpack_refs_defs(s).definitions
         /\ UNCHANGED seen
\* generate_schema on the class H whose hook calls its handler back
CallGenerateSchemaCallback ==
    /\ CanCall
    /\ \E h \in CallbackConfigs, decl \in NestedDeclarations :
        Start("generate_schema", Cls("H"), TRUE, decl, h)
CallGenerateSchemaFromProperty ==
    /\ CanCall
    /\ \E h \in HookedConfigs :
         Atomic("_generate_schema_from_property", Cls("H"), h,
                Returned(_generate_schema_from_property(Cls("H")))')
    /\ UNCHANGED Registry
CallLiteralSchema ==
    /\ CanCall
    /\ \E t \in LiteralTypes :
         Atomic("_literal_schema", t, NoHooked, Returned(_literal_schema(t)))
    /\ UNCHANGED Registry
\* A returned list of values is carried as the values of a "<list>" node.
CallAllLiteralValues ==
    /\ CanCall
    /\ \E t \in LiteralTypes \cup {Cls("int")} :
         Atomic("all_literal_values", t, NoHooked,
                Returned([Schema("<list>", <<>>) EXCEPT !.values = all_literal_values(t)]))
    /\ UNCHANGED Registry
\* with self.defs.get_schema_or_ref(tp) as (ref, schema): ...
CallGetSchemaOrRef ==
    /\ CanCall
    /\ \E m \in Models :
        /\ Atomic("get_schema_or_ref", Cls(m), NoHooked, get_schema_or_ref(Cls(m)).outcome)
        /\ seen' = get_schema_or_ref(Cls(m)).seen
        /\ UNCHANGED definitions

\* The caller takes the outcome of the call that ended; the compiler instance,
\* with its registry, stays available for a further call.
TakeResult ==
    /\ stack = <<>> /\ result.st \in {"returned", "raised"}
    /\ result' = Idle
    /\ call' = NoCall
    /\ pydantic_fields' = NoDeclarations
    /\ hooked' = NoHooked
    /\ mro' = NoBases
    /\ pydantic_decorators' = NoDecorators
    /\ arg' = NoArg
    /\ UNCHANGED <<stack, ret, Registry, ncalls, types_namespace, context, other_defs>>

\* ------------------------------------------------------------ specification
\* GenerateSchema.__init__ / _Definitions.__init__: empty registry, nothing running.
Init ==
    /\ pydantic_fields = NoDeclarations
    /\ hooked = NoHooked
    /\ mro = NoBases
    /\ pydantic_decorators = NoDecorators
    /\ types_namespace = {}
    /\ call = NoCall
    /\ stack = <<>>
    /\ ret = None
    /\ result = Idle
    /\ seen = {}
    /\ definitions = <<>>
    /\ ncalls = 0
    /\ arg = NoArg
    /\ context = InitialContext
    /\ other_defs = [seen |-> {}, definitions |-> <<>>]

Next ==
    \/ CallGenerateSchema
    \/ CallGenerateSchemaHooked
    \/ CallGenerateSchemaModel
    \/ CallMatchType
    \/ CallTupleSchema
    \/ CallUnionSchema
    \/ CallGenerateSchemaFromProperty
    \/ CallLiteralSchema
    \/ CallAllLiteralValues
    \/ CallGetSchemaOrRef
    \/ GenerateSchema
    \/ MatchType
    \/ ModelSchema
    \/ TupleSchema
    \/ UnionSchema
    \/ AnnotatedSchema
    \/ CallAnnotatedSchema
    \/ CallGenerateSchemaForwardRef
    \/ CallGenerateSchemaDerived
    \/ CallGenerateSchemaDecorated
    \/ CallApplyValidators
    \/ CallApplyFieldSerializers
    \/ TypedDictSchema
    \/ CallTypedDictSchema
    \/ CallValidatorFMatch
    \/ OtherUnpackRefsDefs
    \/ CallGenerateSchemaCallback
    \/ GenerateSchemaFromProperty
    \/ GetPydanticCoreSchema
    \/ CallUnpackRefsDefs
    \/ CallCheckDecoratorFieldsExist
    \/ CallStr
    \/ CallApplyAliasGenerator
    \/ Retry
    \/ TakeResult

Spec == Init /\ [][Next]_vars

\* ------------------------------------------------------------ properties
Finished == stack = <<>> /\ result.st \in {"returned", "raised"}
ReturnedFrom(op) == call.op = op /\ stack = <<>> /\ result.st = "returned"
IsModel(obj) == obj.kind = "class" /\ obj.name \in Models

\* The models that m's fields name, and those reachable through fields.
Refers(m) == {pydantic_fields[m][i].annotation.name : i \in DOMAIN pydantic_fields[m]} \cap Models
RECURSIVE ReachIn(_, _)
ReachIn(S, n) == IF n = 0 THEN S ELSE ReachIn(S \cup UNION {Refers(k) : k \in S}, n - 1)
Reach(m) == ReachIn(Refers(m), Cardinality(Models))
\* Compiling m runs into a cycle of the type graph.
MeetsCycle(m) == \E k \in Reach(m) \cup {m} : k \in Reach(k)

RECURSIVE Bodies(_, _)
RECURSIVE BodiesIn(_, _)
\* How many model bodies of class m the schema s holds.
BodiesIn(its, m) == IF its = <<>> THEN 0 ELSE Bodies(Head(its), m) + BodiesIn(Tail(its), m)
Bodies(s, m) ==
    (IF s.type = "model" /\ s.cls = m THEN 1 ELSE 0)
    + BodiesIn(s.items, m) + BodiesIn(s.definitions, m)

RECURSIVE Refs(_)
RECURSIVE RefsIn(_)
\* The refs that the definition-ref nodes of the schema s point at.
RefsIn(its) == IF its = <<>> THEN {} ELSE Refs(Head(its)) \cup RefsIn(Tail(its))
Refs(s) ==
    (IF s.type = "definition-ref" THEN {s.ref} ELSE {})
    \cup RefsIn(s.items) \cup RefsIn(s.definitions)

\* C1: generate_schema on a model of a cyclic type graph (A -> B -> A, or a model
\* with a field of its own type) terminates by reaching a return.
C1_CyclicGraphReturns ==
    (call.op = "generate_schema" /\ IsModel(call.obj) /\ MeetsCycle(call.obj.name) /\ Finished)
        => result.st = "returned"

\* C2: within one top-level generate_schema call the body of each model is
\* compiled at most once: the returned schema never holds two bodies of one model.
C2_BodyCompiledOnce ==
    (ReturnedFrom("generate_schema") /\ IsModel(call.obj))
        => \A m \in Models : Bodies(result.val, m) <= 1

\* C3: get_schema_or_ref(tp), the first time tp is sighted, returns (ref, None)
\* and marks the ref as seen.
C3_FirstSightMarksSeen ==
    (call.op = "get_schema_or_ref" /\ Finished)
        => (result.st = "returned" /\ call.obj.name \in seen)

\* C4: when a top-level generate_schema call returns, every definition-ref node
\* of the returned schema names a key of the compiler's definitions mapping.
C4_NoDanglingRefs ==
    ReturnedFrom("generate_schema") => Refs(result.val) \subseteq DOMAIN definitions

\* C5: when the object has both the hook and the precomputed attribute,
\* _generate_schema_from_property returns what the hook returned.
C5_HookAlwaysWins ==
    (ReturnedFrom("_generate_schema_from_property")
        /\ HasGetSchema(call.obj) /\ HasPrecomputed(call.obj))
        => result.val = HookReturn

\* C6: generate_schema(obj, True) on a class that carries a hook never runs
\* match_type and returns the hook's result; generate_schema(obj, False) returns
\* what structural classification alone gives.
C6_HookShortCircuits ==
    (call.op = "generate_schema" /\ call.obj = Cls("H") /\ HasGetSchema(call.obj))
        => /\ call.flag => \A i \in DOMAIN stack : stack[i].fn # "match_type"
           /\ (call.flag /\ Finished) => result = Returned(HookReturn)
           /\ (~call.flag /\ Finished) => result = Returned(MatchTypeClass(call.obj).val)

C8_TupleDispatch ==
    (call.op = "generate_schema" /\ call.obj \in TupleTypes /\ call.obj.args # <<>>
        /\ (\A i \in DOMAIN call.obj.args : IsType(call.obj.args[i]) \/ (i = 2 /\ IsVariadic(call.obj.args)))
        /\ Finished)
        => /\ result.st = "returned"
           /\ IF IsVariadic(call.obj.args)
                THEN result.val.type = "tuple-variable" /\ Len(result.val.items) = 1
                ELSE result.val.type = "tuple-positional"
                     /\ Len(result.val.items) = Len(call.obj.args)

\* C9: _union_schema returns a union schema whose members are the compiled
\* arguments, as many and in the declared order; with no arguments, 'any'.
C9_UnionOrder ==
    ReturnedFrom("_union_schema")
        => LET args == call.obj.args
           IN  IF args = <<>> THEN result.val = any_schema
               ELSE /\ result.val.type = "union"
                    /\ Len(result.val.items) = Len(args)
                    /\ \A i \in DOMAIN args : result.val.items[i] = ExactSchema(args[i])
\* _union_schema has returned for a Union of three members.
C9_Witness ==
    ReturnedFrom("_union_schema") /\ Len(call.obj.args) = 3 /\ result.val.type = "union"

\* C10: the values of the schema _literal_schema returns are the full
\* flattening of the Literal's members: no Literal among them at any nesting
\* depth, and the list all_literal_values gives.
C10_LiteralFlattened ==
    (ReturnedFrom("_literal_schema") /\ call.obj.args # <<>>)
        => /\ \A i \in DOMAIN result.val.values : ~IsLiteral(result.val.values[i])
           /\ result.val.values = all_literal_values(call.obj)

\* The schema the metadata must give, read from its end: the last item decides,
\* from the schema the items before it gave.
RECURSIVE AfterLast(_, _)
AfterLast(base_schema, metadata) ==
    IF metadata = <<>> THEN base_schema
    ELSE LET n == Len(metadata)
             last == metadata[n]
             sofar == AfterLast(base_schema, SubSeq(metadata, 1, n - 1))
         IN  CASE MetaHasGetSchema(last) -> MetaHookReturn(last, sofar)
               [] ~MetaHasGetSchema(last) /\ MetaHasPrecomputed(last) -> MetaPrecomputedAttr(last)
               [] OTHER -> sofar

\* C11: _annotated_schema compiles the base type first and applies the metadata
\* items left to right: an item with a hook is handed the schema so far and its
\* return value becomes the schema, an item with only a precomputed schema
\* replaces it, an item with neither leaves it; the result is the schema after
\* the last item.
C11_MetadataLeftToRight ==
    (call.obj \in AnnotatedTypes /\ Finished)
        => result = Returned(AfterLast(ExactSchema(call.obj.args[1]), Tail(call.obj.args)))
\* Two hooked items were applied: the second one's node wraps the first one's.
C11_Witness ==
    /\ ReturnedFrom("_annotated_schema") /\ Len(call.obj.args) = 3
    /\ result.val.type = "function-after" /\ result.val.cls = "m2"
    /\ result.val.items[1].type = "function-after" /\ result.val.items[1].cls = "m1"

\* errors.py: the classes an exception class derives from, itself included.
ErrorBases(e) ==
    CASE e = "PydanticSchemaGenerationError"
            -> {"PydanticSchemaGenerationError", "PydanticUserError", "TypeError"}
      [] e = "PydanticUserError" -> {"PydanticUserError", "TypeError"}
      [] e = "PydanticUndefinedAnnotation" -> {"PydanticUndefinedAnnotation", "NameError"}
      [] OTHER -> {e}

\* errors.py: the declared codes.
PydanticErrorCodes ==
    {"class-not-fully-defined", "custom-json-schema",
     "decorator-missing-field", "discriminator-no-field",
     "discriminator-alias-type", "discriminator-needs-literal",
     "discriminator-alias", "discriminator-validator",
     "callable-discriminator-no-tag", "typed-dict-version",
     "model-field-overridden", "model-field-missing-annotation",
     "config-both", "removed-kwargs", "invalid-for-json-schema",
     "json-schema-already-used", "base-model-instantiated",
     "undefined-annotation", "schema-for-unknown-type", "import-error",
     "create-model-field-definitions", "create-model-config-base",
     "validator-no-fields", "validator-invalid-fields",
     "validator-instance-method", "root-validator-pre-skip",
     "model-serializer-instance-method", "validator-field-config-info",
     "validator-v1-signature", "validator-signature",
     "field-serializer-signature", "model-serializer-signature",
     "multiple-field-serializers", "invalid_annotated_type",
     "type-adapter-config-unused", "root-model-extra",
     "unevaluable-type-annotation", "dataclass-init-false-extra-allow",
     "clashing-init-and-init-var", "model-config-invalid-field-name",
     "with-config-on-model", "dataclass-on-model"}

\* C12: generate_schema on an annotation that is, or holds as a field or item,
\* a forward reference the types namespace does not resolve ends in
\* PydanticUndefinedAnnotation, an error that is no PydanticUserError and no
\* PydanticSchemaGenerationError.
C12_UndefinedAnnotation ==
    (call.op = "generate_schema" /\ ForwardNames(call.obj) # {}
        /\ ~(ForwardNames(call.obj) \subseteq types_namespace) /\ Finished)
        => /\ result.st = "raised"
           /\ result.err = "PydanticUndefinedAnnotation"
           /\ ErrorBases(result.err)
                \cap {"PydanticUserError", "PydanticSchemaGenerationError"} = {}

\* What compiling the class a forward reference names gives when compiled
\* directly: the model schema of its fields, primitives all.
DirectModel(m) ==
    model_schema(m, FieldNamesOf(Cls(m)),
                 [i \in DOMAIN pydantic_fields[m] |-> ExactSchema(pydantic_fields[m][i].annotation)],
                 <<>>, <<>>)
DirectItem(d) == IF IsForwardRef(d) THEN DirectModel(d.name) ELSE ExactSchema(d)
\* Direct compilation of obj with its forward references resolved.
Direct(obj) ==
    IF IsForwardRef(obj) THEN DirectModel(obj.name)
    ELSE IF obj.kind = "generic" THEN DirectItem(obj.args[1])
    ELSE model_schema(obj.name, FieldNamesOf(obj),
                      [i \in DOMAIN pydantic_fields[obj.name] |->
                            DirectItem(pydantic_fields[obj.name][i].annotation)],
                      <<>>, <<>>)

C14_BareContainerAny ==
    (call.op = "generate_schema" /\ IsType(call.obj) /\ call.obj.name \in Containers
        /\ Finished)
        => /\ result.st = "returned"
           /\ result.val.type =
                (IF call.obj.name = "tuple" THEN "tuple-variable" ELSE call.obj.name)
           /\ Len(result.val.items) = (IF call.obj.name = "dict" THEN 2 ELSE 1)
           /\ \A i \in DOMAIN result.val.items : result.val.items[i] = any_schema
\* generate_schema(frozenset) has returned a frozenset schema of 'any'.
C14_Witness ==
    /\ ReturnedFrom("generate_schema") /\ call.obj = Cls("frozenset")
    /\ result.val = frozenset_schema(any_schema)

\* The class and its model bases, the most derived first.
Lineage(c) == <<c>> \o mro[c]
Declares(k, n) == \E i \in DOMAIN pydantic_fields[k] : pydantic_fields[k][i].name = n
DeclaredNames(c) ==
    {n \in InheritedNames : \E i \in DOMAIN Lineage(c) : Declares(Lineage(c)[i], n)}
\* The annotation of field n in the most derived class of c's lineage that declares n.
MostDerivedAnnotation(c, n) ==
    LET l == Lineage(c)
        k == l[CHOOSE i \in DOMAIN l :
                    Declares(l[i], n) /\ \A j \in 1..(i - 1) : ~Declares(l[j], n)]
    IN  pydantic_fields[k][CHOOSE i \in DOMAIN pydantic_fields[k] :
                                pydantic_fields[k][i].name = n].annotation

C16_ValidatorReplaced ==
    (ReturnedFrom("generate_schema") /\ call.obj = Cls("D"))
        => LET v == result.val.validators
               l == Lineage("D")
           IN  /\ \A i, j \in DOMAIN v : v[i].cls_var_name = v[j].cls_var_name => i = j
               /\ \A i \in DOMAIN v : \A a, b \in DOMAIN l :
                    (l[b] = v[i].cls_ref /\ a < b)
                        => \A k \in DOMAIN pydantic_decorators[l[a]].field_validators :
                            pydantic_decorators[l[a]].field_validators[k].cls_var_name
                                # v[i].cls_var_name

RECURSIVE WrappedInOrder(_, _)
\* schema wrapped by each validator in turn: the first wraps schema itself, the
\* last is the outermost node.
WrappedInOrder(schema, validators) ==
    IF validators = <<>> THEN schema
    ELSE WrappedInOrder(no_info_after_validator_function(Head(validators).cls_var_name, schema),
                        Tail(validators))

\* C17: apply_validators with validators v1, v2, ... of mode 'after' returns the
\* inner schema wrapped in declaration order: v1 wraps the inner schema, each
\* next validator wraps the result, the last one is outermost.
C17_ValidatorsInOrder ==
    (call.op = "apply_validators" /\ call.obj.args # <<>> /\ Finished)
        => result = Returned(WrappedInOrder(int_schema, call.obj.args))

\* Some class of D's lineage attaches two serializers to one field.
TwoSerializersOnAField ==
    \E k \in {"D"} \cup {mro["D"][i] : i \in DOMAIN mro["D"]} :
        \E i, j \in DOMAIN pydantic_decorators[k].field_serializers :
            /\ i # j
            /\ pydantic_decorators[k].field_serializers[i].fields
                    = pydantic_decorators[k].field_serializers[j].fields

\* C18: compiling with two or more field serializers attached to the same field
\* fails with a PydanticUserError: neither the model compile nor
\* _apply_field_serializers returns.
C18_MultipleSerializersFail ==
    /\ (call.op = "generate_schema" /\ call.obj = Cls("D") /\ TwoSerializersOnAField /\ Finished)
            => (result.st = "raised" /\ "PydanticUserError" \in ErrorBases(result.err))
    /\ (call.op = "_apply_field_serializers" /\ Len(call.obj.args) >= 2 /\ Finished)
            => (result.st = "raised" /\ "PydanticUserError" \in ErrorBases(result.err))

\* C19: when the hook returns a schema that carries a 'definitions' bundle, the
\* schema generate_schema returns carries none, and every entry of the bundle
\* is in the compiler's definitions mapping under its ref.
C19_BundleHoisted ==
    (ReturnedFrom("generate_schema") /\ call.flag /\ HasGetSchema(call.obj)
        /\ HookReturn.definitions # <<>>)
        => /\ result.val.definitions = <<>>
           /\ \A i \in DOMAIN HookReturn.definitions :
                /\ HookReturn.definitions[i].ref \in DOMAIN definitions
                /\ definitions[HookReturn.definitions[i].ref] = HookReturn.definitions[i]

\* C20: every PydanticUserError the compiler raises carries a code of the
\* declared code set; the TypedDict error carries 'typed-dict-version' and a
\* PydanticSchemaGenerationError carries 'schema-for-unknown-type'.
C20_DeclaredErrorCodes ==
    (Finished /\ result.st = "raised" /\ "PydanticUserError" \in ErrorBases(result.err))
        => /\ result.code \in PydanticErrorCodes
           /\ call.op = "_typed_dict_schema" => result.code = "typed-dict-version"
           /\ result.err = "PydanticSchemaGenerationError"
                => result.code = "schema-for-unknown-type"

\* C29: a user subclass of a builtin container that defines no hook compiles to
\* the schema kind of its base container (dict to a dict schema, list to a list
\* schema, set to a set schema, frozenset to a frozenset schema, tuple to a
\* tuple schema), and never fails.
C29_ContainerSubclassKind ==
    (call.op = "generate_schema" /\ call.obj = Cls("H") /\ hooked.shape \in Containers
        /\ ~HasGetSchema(call.obj) /\ ~HasPrecomputed(call.obj) /\ Finished)
        => /\ result.st = "returned"
           /\ IF hooked.shape = "tuple"
                THEN result.val.type \in {"tuple-variable", "tuple-positional"}
                ELSE result.val.type = hooked.shape

\* C24: match_type is total: for every descriptor it either returns a schema or
\* raises PydanticSchemaGenerationError; it ends in no other error and never
\* returns without a schema.
C24_MatchTypeTotal ==
    (call.op = "match_type" /\ Finished)
        => \/ result.st = "returned" /\ result.val # None
           \/ result.st = "raised" /\ result.err = "PydanticSchemaGenerationError"

\* C28: every (mode, convention) key of _VALIDATOR_F_MATCH is defined; a plain
\* validator gives a function schema that holds the function and no inner
\* schema, while before, after and wrap give a function schema of their mode
\* that wraps exactly the inner schema it was given.
C28_PlainReplacesInner ==
    (call.op = "_VALIDATOR_F_MATCH" /\ Finished)
        => LET a == call.obj.args[1]
           IN  /\ result.st = "returned"
               /\ result.val.type = CASE a.mode = "before" -> "function-before"
                                       [] a.mode = "after" -> "function-after"
                                       [] a.mode = "plain" -> "function-plain"
                                       [] a.mode = "wrap" -> "function-wrap"
               /\ result.val.function[1] = a.convention
               /\ result.val.function[2] = call.obj.name
               /\ IF a.mode = "plain" THEN result.val.items = <<>>
                                       ELSE result.val.items = <<a.schema>>
\* A plain validator was built over a list schema, and the schema is not in it.
C28_Witness ==
    /\ call.op = "_VALIDATOR_F_MATCH" /\ Finished
    /\ call.obj.args[1].mode = "plain"
    /\ call.obj.args[1].schema = list_schema(str_schema)
    /\ result.val = no_info_plain_validator_function("check")

\* C25: when the alias generator returns a value that is no str, AliasPath or
\* AliasChoices for a field that has no alias of its own, the call ends in a
\* PydanticUserError (a TypeError) and the value is not stored on the field.
C25_DisallowedAliasRejected ==
    (call.op = "_apply_alias_generator_to_field_info" /\ Finished
        /\ call.obj.args[1].field_info
             = [alias |-> "None", validation_alias |-> "None", serialization_alias |-> "None"]
        /\ AliasType(call.obj.args[1].alias_generator.returns)
             \notin {"str", "AliasPath", "AliasChoices"})
        => /\ result.st = "raised"
           /\ "TypeError" \in ErrorBases(result.err)
           /\ arg = call.obj.args[1].field_info

\* C26: str() of a pydantic error is its message alone when its code is None;
\* with any other code it is the message, the "For further information visit"
\* line, the docs URL of the running short version, and the code; message and
\* code are afterwards what the error was constructed with.
C26_StrOfError ==
    (call.op = "__str__" /\ Finished)
        => LET a == call.obj.args[1]
           IN  /\ result.st = "returned"
               /\ arg.message = a.message /\ arg.code = a.code
               /\ IF a.code = "None" THEN result.val.values = a.message
                  ELSE /\ Len(result.val.values) = Len(a.message) + 5
                       /\ SubSeq(result.val.values, 1, Len(a.message)) = a.message
                       /\ SubSeq(result.val.values, Len(a.message) + 1, Len(a.message) + 5)
                            = <<"\n\nFor further information visit ",
                                "https://errors.pydantic.dev/", a.version, "/u/", a.code>>
\* An error with the empty string as its code was printed: the link is there.
C26_Witness ==
    /\ call.op = "__str__" /\ Finished
    /\ call.obj.args[1].code = "" /\ call.obj.args[1].message # <<>>
    /\ Len(result.val.values) = 6

C30_UnpackFrame ==
    /\ []((call.op = "_unpack_refs_defs" /\ Finished)
            => /\ result.st = "returned"
               /\ arg = call.obj.args[1]
               /\ result.val = [call.obj.args[1] EXCEPT !.definitions = <<>>])
    /\ [][call'.op = "_unpack_refs_defs" /\ result'.st \in {"returned", "raised"}
            /\ result.st = "idle"
            => /\ DOMAIN definitions \subseteq DOMAIN definitions'
               /\ call'.obj.args[1].definitions = <<>> => definitions' = definitions]_vars

\* C21: generate_schema on a class whose hook calls the handler back for the
\* self-referential model it nests ends by returning (no unbounded recursion),
\* and the returned schema holds the nested model's body at most once, as the
\* compile of the same graph without a hook does.
C21_CallbackTerminates ==
    (call.op = "generate_schema" /\ call.obj = Cls("H") /\ hooked.hook \in CallbackKinds
        /\ "B" \in Refers("B") /\ Finished)
        => /\ result.st = "returned"
           /\ Bodies(result.val, "B") <= 1

\* C23: whenever a generate_schema call exits, by return or by an error, the
\* config wrapper stack, the types namespace stack, the field name stack and
\* the model type stack are what they were when that call was entered.
C23_StackDiscipline ==
    [][\A i \in DOMAIN stack :
          (stack[i].fn = "generate_schema" /\ i > Len(stack')) => context' = stack[i].ctx]_vars
\* generate_schema on a model has ended in an error, _model_schema having read
\* the config wrapper stack, and the four stacks are as the compiler was built with.
C23_Witness ==
    /\ call.op = "generate_schema" /\ IsModel(call.obj) /\ Finished
    /\ result.st = "raised" /\ result.err = "RecursionError"
    /\ context = InitialContext

\* The entries each of the two instances stores.
StoredBy(schemas) ==
    UNION {{Update(<<>>, SubSeq(s.definitions, 1, n)).d : n \in 0..Len(s.definitions)} :
            s \in schemas}
EntriesOf(schemas) == UNION {{<<k, d[k]>> : k \in DOMAIN d} : d \in StoredBy(schemas)}
Entries(d) == {<<k, d[k]>> : k \in DOMAIN d}
OnlySecondStores == EntriesOf(OtherSchemas) \ EntriesOf(UnpackSchemas)
OnlyFirstStores == EntriesOf(UnpackSchemas) \ EntriesOf(OtherSchemas)
====
